---- MODULE Spec2Model ----
(***************************************************************************)
(* ThreadPool of src/integral/integral_thread_pool.cpp (the same class is  *)
(* repeated in src/integral/integral.cpp with threads_/flag_stop_ for      *)
(* workers_/stop_).                                                        *)
(*                                                                         *)
(* Threads of the model: the owner thread (constructs and destroys the     *)
(* pool), one client thread (calls submit), and the worker jthreads.       *)
(* Every statement of the worker lambda, of submit() and of ~ThreadPool()  *)
(* that touches shared state is one action.                                *)
(*                                                                         *)
(* The members are declared workers_, tasks_, mutex_, cv_, stop_, so after *)
(* the destructor body they are destroyed in the reverse order: cv_,       *)
(* mutex_, tasks_ and only then workers_ (whose jthreads join).  A thread  *)
(* that uses a member after its destruction has undefined behaviour: the   *)
(* model lets it continue on the member's residual state, block forever,   *)
(* or abort the process.                                                   *)
(***************************************************************************)
EXTENDS Integers, Sequences, FiniteSets, TLC

\* Largest worker count passed to the constructor.
MaxThreads == 2
\* Number of submit() calls the client makes at most.
MaxTasks == 2

Workers == 1..MaxThreads
Tasks == 1..MaxTasks
\* Values of the constructor's int argument that are tried.
ThreadArgs == (0 - 1)..MaxThreads

\* Thread identities as the holder of mutex_ (0: unlocked).
NoThread == 0
ClientThread == MaxThreads + 1
OwnerThread == MaxThreads + 2

VARIABLES
    owner,      \* position of the owner thread in ThreadPool() / ~ThreadPool()
    threads,    \* the constructor's argument
    workers_,   \* number of jthreads in workers_
    joined,     \* number of jthreads ~vector has joined
    wpc,        \* position of each worker in its lambda
    task,       \* each worker's local std::function task (0: empty)
    tasks_,     \* the queue
    mutex_,     \* the thread holding mutex_
    waiting,    \* workers blocked inside cv_.wait
    stop_,      \* the stop flag
    destroyed,  \* members whose destructor has run
    fut,        \* the shared state of each task's future
    callable,   \* what each submitted callable does: "returns" or "throws"
    client,     \* position of the client thread in submit()
    cur,        \* the task the client is submitting
    made,       \* number of packaged_tasks created so far
    submitted,  \* history: tasks in the order they were emplaced
    dequeued,   \* history: <<task, worker>> in the order of tasks_.pop()
    executed,   \* history: <<task, worker>> in the order task() returned
    resolved,   \* history: per task, the threads that made its future ready
    atStop,     \* history: the tasks queued when stop_ was set
    lateSubmit, \* history: tasks whose submit() was called with stop_ already set
    aborted,    \* "no", or why the process was terminated
    \* the futures in the hands of submit()'s caller
    released,   \* futures whose get() has returned: valid() is false
    reads,      \* history: per task, what each get() on its future returned
    \* compute_parallel_thread_pool / ThreadPoolIntegrator::compute
    caller,         \* position of the calling thread in the function
    tasks_number,   \* the argument tasks_number
    futures,        \* the vector of futures (the tasks they belong to)
    gets,           \* number of futures the second loop has consumed
    total_integral, \* the accumulator
    \* Library (src/readers_writers/readers_writers.cpp)
    lib_sim,          \* position of the thread running Library::simulate
    readers_number,   \* simulate's arguments
    writers_number,
    lib_started,      \* number of jthreads emplaced so far
    stop_requests,    \* number of jthreads whose request_stop() was called
    lpc,              \* position of each Reader / Writer thread
    lib_mutex_,       \* the thread holding Library::mutex_
    cond_readers_,    \* the threads blocked in cond_readers_.wait
    cond_writers_,    \* the threads blocked in cond_writers_.wait
    readers_,
    writers_,
    waiting_writers_,
    \* Pub (src/pub/pub.cpp)
    pub_sim,          \* position of the thread running Pub::simulate
    customers_number, \* simulate's arguments
    drinks_per_customer,
    total_mugs_,
    total_taps_,
    pub_started,      \* number of customer jthreads emplaced so far
    cpc,              \* position of each customer in drink()
    drink_i,          \* each customer's loop counter i
    tap_j,            \* each customer's scan index j
    used_tap,         \* each customer's used_tap
    mugs_,            \* the counter of the counting_semaphore
    taps_,            \* the counter of each tap's binary_semaphore
    current_mugs_available_,
    verdict,          \* what verify_and_close_pub logged
    \* MatrixVector (src/matrix_vector/matrix_vector_execution.cpp)
    mv_phase,         \* position of the thread running the multiplication
    method,           \* which threaded decomposition runs
    n_,
    num_threads,
    mv_started,       \* number of jthreads emplaced so far
    next_j,           \* each thread's loop variable j (its next column)
    finished,         \* the threads whose lambda has returned
    local_results,
    y_,
    out_of_range,     \* an index outside its vector was used
    \* ThreadIntegrator::compute (integral.cpp) and parallelIntegral
    \* (integration.cpp)
    function,         \* which of the two is running, "none" if neither
    main_pc,          \* position of the calling thread in the function
    tasks_number_,    \* tasks_number_ / numTasks
    threads_number_,  \* threads_number_ / numThreads
    emplaced,         \* number of jthreads emplaced so far
    task_index,       \* the atomic counter
    tpc,              \* position of each thread in the lambda
    idx,              \* each thread's local idx
    results,          \* the results vector, slots from 0
    writes,           \* history: per index, the threads that stored into it
    next_slot,        \* std::accumulate's iterator
    accumulated,      \* std::accumulate's accumulator
    raced             \* a slot was read while a thread was storing into it

threadPool == <<owner, threads, workers_, joined, wpc, task, tasks_, mutex_,
                waiting, stop_, destroyed, fut, callable, client, cur, made,
                submitted, dequeued, executed, resolved, atStop, lateSubmit,
                aborted>>
handles == <<released, reads>>
compute == <<caller, tasks_number, futures, gets, total_integral>>

library == <<lib_sim, readers_number, writers_number, lib_started,
             stop_requests, lpc, lib_mutex_, cond_readers_, cond_writers_,
             readers_, writers_, waiting_writers_>>
libSim == <<lib_sim, readers_number, writers_number, lib_started,
            stop_requests>>
pub == <<pub_sim, customers_number, drinks_per_customer, total_mugs_,
         total_taps_, pub_started, cpc, drink_i, tap_j, used_tap, mugs_, taps_,
         current_mugs_available_, verdict>>
matrixVector == <<mv_phase, method, n_, num_threads, mv_started, next_j,
                  finished, local_results, y_, out_of_range>>

\* the integral programs, and what the ThreadPool's own code never touches
threadIntegrator == <<function, main_pc, tasks_number_, threads_number_,
                      emplaced, task_index, tpc, idx, results, writes,
                      next_slot, accumulated, raced>>
integral == <<threadPool, handles, compute, threadIntegrator>>
others == <<library, pub, matrixVector, threadIntegrator>>
outside == <<handles, compute, others>>

vars == <<threadPool, handles, compute, library, pub, matrixVector,
          threadIntegrator>>

poolVars == <<owner, threads, workers_, joined>>
histVars == <<submitted, dequeued, executed, resolved, atStop, lateSubmit>>

Range(s) == {s[i] : i \in 1..Len(s)}

\* ------------------------------------------------------------------------
\* The pieces of the code that decide the claims, as operators.

\* A wait that lets the worker through whatever the flag and the queue are.
WaitWithoutPredicate(stop, q) == TRUE

\* cv_.wait's predicate: stop_ || !tasks_.empty()
WaitPredicate(stop, q) == stop \/ q # <<>>

\* A worker that returns as soon as the stop flag is set.
ExitOnStop(stop, q) == stop

\* if (stop_ && tasks_.empty()) return;
ExitCondition(stop, q) == stop /\ q = <<>>

\* tasks_.front(); on an empty queue front() yields no task (0)
Front(q) == IF q = <<>> THEN 0 ELSE Head(q)

\* tasks_.pop()
Pop(q) == IF q = <<>> THEN <<>> ELSE Tail(q)

\* A submit() that puts the task at the head of the queue.
EmplaceFront(q, t) == <<t>> \o q

\* tasks_.emplace(...)
Emplace(q, t) == Append(q, t)

\* A submit() whose notification reaches no waiter.
NotifyOneLost(ws) == {{}}

\* cv_.notify_one(): the sets of waiters it may wake
NotifyOne(ws) == IF ws = {} THEN {{}} ELSE {{w} : w \in ws}

\* cv_.notify_all(): the waiters it wakes
NotifyAll(ws) == ws

\* for (int i = 0; i < threads; ++i): does the loop spawn another worker
SpawnsAnother(i, n) == i < n

\* A wrapper that lets the callable's exception leave task().
UnguardedCall(t, behaviour) ==
    IF behaviour = "throws"
    THEN [stored |-> [kind |-> "pending", of |-> 0], escapes |-> TRUE]
    ELSE [stored |-> [kind |-> "value", of |-> t], escapes |-> FALSE]

\* packaged_task::operator(): runs the callable and stores its value, or the
\* exception it raised, in the task's own shared state; nothing escapes.
PackagedTaskCall(t, behaviour) ==
    IF behaviour = "throws"
    THEN [stored |-> [kind |-> "exception", of |-> t], escapes |-> FALSE]
    ELSE [stored |-> [kind |-> "value", of |-> t], escapes |-> FALSE]

Pending == [kind |-> "pending", of |-> 0]
NoFuture == [kind |-> "none", of |-> 0]
\* ~packaged_task with the future still alive: broken_promise
Broken(t) == [kind |-> "broken", of |-> t]

\* The members a worker's next statement uses.
WorkerTouches(pc) ==
    CASE pc = "lock" -> {"mutex_"}
      [] pc = "pred" -> {"cv_", "mutex_", "tasks_"}
      [] pc = "woken" -> {"mutex_"}
      [] pc = "check" -> {"mutex_", "tasks_"}
      [] OTHER -> {}

\* The members the client's next statement uses.
ClientTouches(pc) ==
    CASE pc = "s_lock" -> {"mutex_"}
      [] pc = "s_emplace" -> {"mutex_", "tasks_"}
      [] pc = "s_notify" -> {"cv_"}
      [] OTHER -> {}

\* A thread that ignores the holder of the mutex.
LockWithoutWaiting(m) == TRUE

\* mutex_.lock() (unique_lock / scoped_lock construction) returns only when no
\* thread holds the mutex
CanLock(m) == m = NoThread

\* The mutex stays with the worker while its task runs.
LockKeptWhileRunning(w) == w

\* The closing brace of the block that holds std::unique_lock lock: the
\* mutex is released before task() is called.
LockScopeEnd(w) == NoThread

\* A worker that goes for the next task while the one it took is not run yet.
LoopAfterTake == "lock"

\* After the locked scope the worker's next statement is task(), a plain call
\* on the worker's own thread: it loops only when the call has returned.
AfterTake == "run"

\* std::terminate has not been called
Live == aborted = "no"

\* ------------------------------------------------------------------------
PoolInit ==
    /\ owner = "unborn"
    /\ threads = 0
    /\ workers_ = 0
    /\ joined = 0
    /\ wpc = [w \in Workers |-> "unborn"]
    /\ task = [w \in Workers |-> 0]
    /\ tasks_ = <<>>
    /\ mutex_ = NoThread
    /\ waiting = {}
    /\ stop_ = FALSE
    /\ destroyed = {}
    /\ fut = [t \in Tasks |-> NoFuture]
    /\ callable = [t \in Tasks |-> "none"]
    /\ client = "idle"
    /\ cur = 0
    /\ made = 0
    /\ submitted = <<>>
    /\ dequeued = <<>>
    /\ executed = <<>>
    /\ resolved = [t \in Tasks |-> <<>>]
    /\ atStop = {}
    /\ lateSubmit = {}
    /\ aborted = "no"

\* no future has been read
NoReads ==
    /\ released = {}
    /\ reads = [t \in Tasks |-> <<>>]

\* the integrating function is not part of the run
NoCompute ==
    /\ caller = "none"
    /\ tasks_number = 0
    /\ futures = <<>>
    /\ gets = 0
    /\ total_integral = 0

\* the repository's other programs are not part of the run
NoLibrary ==
    /\ lib_sim = "none"
    /\ readers_number = 0
    /\ writers_number = 0
    /\ lib_started = 0
    /\ stop_requests = 0
    /\ lpc = <<>>
    /\ lib_mutex_ = NoThread
    /\ cond_readers_ = {}
    /\ cond_writers_ = {}
    /\ readers_ = 0
    /\ writers_ = 0
    /\ waiting_writers_ = 0

NoPub ==
    /\ pub_sim = "none"
    /\ customers_number = 0
    /\ drinks_per_customer = 0
    /\ total_mugs_ = 0
    /\ total_taps_ = 0
    /\ pub_started = 0
    /\ cpc = <<>>
    /\ drink_i = <<>>
    /\ tap_j = <<>>
    /\ used_tap = <<>>
    /\ mugs_ = 0
    /\ taps_ = <<>>
    /\ current_mugs_available_ = 0
    /\ verdict = "none"

NoMatrixVector ==
    /\ mv_phase = "none"
    /\ method = "none"
    /\ n_ = 0
    /\ num_threads = 0
    /\ mv_started = 0
    /\ next_j = <<>>
    /\ finished = {}
    /\ local_results = <<>>
    /\ y_ = <<>>
    /\ out_of_range = FALSE

NoThreadIntegrator ==
    /\ function = "none"
    /\ main_pc = "none"
    /\ tasks_number_ = 0
    /\ threads_number_ = 0
    /\ emplaced = 0
    /\ task_index = 0
    /\ tpc = <<>>
    /\ idx = <<>>
    /\ results = <<>>
    /\ writes = <<>>
    /\ next_slot = 0
    /\ accumulated = 0
    /\ raced = FALSE

NoIntegral == PoolInit /\ NoReads /\ NoCompute /\ NoThreadIntegrator

Init == NoIntegral /\ NoLibrary /\ NoPub /\ NoMatrixVector

\* ------------------------------------------------------------------------
\* ThreadPool(int threads)

Construct(n) ==
    /\ Live
    /\ owner = "unborn"
    /\ owner' = "ctor"
    /\ threads' = n
    /\ UNCHANGED <<workers_, joined, wpc, task, tasks_, mutex_, waiting, stop_,
                   destroyed, fut, callable, client, cur, made, histVars, aborted>>
    /\ UNCHANGED outside

\* workers_.emplace_back(lambda): the new jthread starts at the top of its loop
Spawn ==
    /\ Live
    /\ owner = "ctor"
    /\ SpawnsAnother(workers_, threads)
    /\ workers_' = workers_ + 1
    /\ wpc' = [wpc EXCEPT ![workers_ + 1] = "lock"]
    /\ UNCHANGED <<owner, threads, joined, task, tasks_, mutex_, waiting, stop_,
                   destroyed, fut, callable, client, cur, made, histVars, aborted>>
    /\ UNCHANGED outside

CtorReturn ==
    /\ Live
    /\ owner = "ctor"
    /\ ~SpawnsAnother(workers_, threads)
    /\ owner' = "alive"
    /\ UNCHANGED <<threads, workers_, joined, wpc, task, tasks_, mutex_, waiting,
                   stop_, destroyed, fut, callable, client, cur, made, histVars,
                   aborted>>
    /\ UNCHANGED outside

\* ------------------------------------------------------------------------
\* The worker lambda

\* std::unique_lock lock(mutex_)
WorkerLock(w) ==
    /\ Live
    /\ wpc[w] = "lock"
    /\ CanLock(mutex_)
    /\ mutex_' = w
    /\ wpc' = [wpc EXCEPT ![w] = "pred"]
    /\ UNCHANGED <<poolVars, task, tasks_, waiting, stop_, destroyed, fut,
                   callable, client, cur, made, histVars, aborted>>
    /\ UNCHANGED outside

\* cv_.wait(lock, pred): while (!pred()) wait(lock);
WorkerWait(w) ==
    /\ Live
    /\ wpc[w] = "pred"
    /\ IF WaitPredicate(stop_, tasks_)
       THEN /\ wpc' = [wpc EXCEPT ![w] = "check"]
            /\ UNCHANGED <<mutex_, waiting>>
       ELSE /\ wpc' = [wpc EXCEPT ![w] = "waiting"]
            /\ mutex_' = NoThread
            /\ waiting' = waiting \cup {w}
    /\ UNCHANGED <<poolVars, task, tasks_, stop_, destroyed, fut, callable,
                   client, cur, made, histVars, aborted>>
    /\ UNCHANGED outside

\* a wakeup no notify caused
SpuriousWake(w) ==
    /\ Live
    /\ w \in waiting
    /\ waiting' = waiting \ {w}
    /\ wpc' = [wpc EXCEPT ![w] = "woken"]
    /\ UNCHANGED <<poolVars, task, tasks_, mutex_, stop_, destroyed, fut,
                   callable, client, cur, made, histVars, aborted>>
    /\ UNCHANGED outside

\* the woken waiter takes the mutex again before it re-evaluates the predicate
WorkerRelock(w) ==
    /\ Live
    /\ wpc[w] = "woken"
    /\ CanLock(mutex_)
    /\ mutex_' = w
    /\ wpc' = [wpc EXCEPT ![w] = "pred"]
    /\ UNCHANGED <<poolVars, task, tasks_, waiting, stop_, destroyed, fut,
                   callable, client, cur, made, histVars, aborted>>
    /\ UNCHANGED outside

\* if (stop_ && tasks_.empty()) return;   (the lock is released on the way out)
WorkerExit(w) ==
    /\ Live
    /\ wpc[w] = "check"
    /\ ExitCondition(stop_, tasks_)
    /\ wpc' = [wpc EXCEPT ![w] = "exited"]
    /\ mutex_' = NoThread
    /\ UNCHANGED <<poolVars, task, tasks_, waiting, stop_, destroyed, fut,
                   callable, client, cur, made, histVars, aborted>>
    /\ UNCHANGED outside

\* task = std::move(tasks_.front()); tasks_.pop(); }   (end of the locked scope)
WorkerTake(w) ==
    /\ Live
    /\ wpc[w] = "check"
    /\ ~ExitCondition(stop_, tasks_)
    /\ task' = [task EXCEPT ![w] = Front(tasks_)]
    /\ tasks_' = Pop(tasks_)
    /\ dequeued' = Append(dequeued, <<Front(tasks_), w>>)
    /\ wpc' = [wpc EXCEPT ![w] = AfterTake]
    /\ mutex_' = LockScopeEnd(w)
    /\ UNCHANGED <<poolVars, waiting, stop_, destroyed, fut, callable, client,
                   cur, made, submitted, executed, resolved, atStop, lateSubmit,
                   aborted>>
    /\ UNCHANGED outside

\* task();  An empty std::function throws bad_function_call, a packaged_task
\* invoked a second time throws future_error, a callable's exception that the
\* wrapper lets escape leaves the thread function: each ends in std::terminate.
WorkerRun(w) ==
    /\ Live
    /\ wpc[w] = "run"
    /\ LET t == task[w]
           r == PackagedTaskCall(t, callable[t])
       IN  IF t = 0
           THEN /\ aborted' = "bad_function_call"
                /\ UNCHANGED <<fut, executed, resolved, wpc, task>>
           ELSE /\ executed' = Append(executed, <<t, w>>)
                /\ IF fut[t].kind = "pending"
                   THEN /\ fut' = [fut EXCEPT ![t] = r.stored]
                        /\ resolved' = [resolved EXCEPT ![t] = Append(@, w)]
                        /\ aborted' = IF r.escapes THEN "exception" ELSE "no"
                   ELSE /\ aborted' = "future_error"
                        /\ UNCHANGED <<fut, resolved>>
                /\ task' = [task EXCEPT ![w] = 0]
                /\ wpc' = [wpc EXCEPT ![w] = "lock"]
    /\ UNCHANGED <<poolVars, tasks_, mutex_, waiting, stop_, destroyed, callable,
                   client, cur, made, submitted, dequeued, atStop, lateSubmit>>
    /\ UNCHANGED outside

\* The worker's next statement uses a destroyed member and does not survive it:
\* the thread blocks forever, or the process is terminated.
WorkerUseAfterDestroy(w) ==
    /\ Live
    /\ WorkerTouches(wpc[w]) \cap destroyed # {}
    /\ \/ /\ wpc' = [wpc EXCEPT ![w] = "hung"]
          /\ UNCHANGED aborted
       \/ /\ aborted' = "use_after_destroy"
          /\ UNCHANGED wpc
    /\ UNCHANGED <<poolVars, task, tasks_, mutex_, waiting, stop_, destroyed, fut,
                   callable, client, cur, made, histVars>>
    /\ UNCHANGED outside

\* ------------------------------------------------------------------------
\* submit(F&& f)

\* make_shared<packaged_task>(f); task_ptr->get_future()
SubmitBegin(b) ==
    /\ Live
    /\ client = "idle"
    /\ owner \notin {"unborn", "ctor", "gone", "gone_again", "hung"}
    /\ made < MaxTasks
    /\ made' = made + 1
    /\ cur' = made + 1
    /\ callable' = [callable EXCEPT ![made + 1] = b]
    /\ fut' = [fut EXCEPT ![made + 1] = Pending]
    /\ client' = "s_lock"
    /\ lateSubmit' = IF stop_ THEN lateSubmit \cup {made + 1} ELSE lateSubmit
    /\ UNCHANGED <<poolVars, wpc, task, tasks_, mutex_, waiting, stop_, destroyed,
                   submitted, dequeued, executed, resolved, atStop, aborted>>
    /\ UNCHANGED outside

\* std::scoped_lock lock(mutex_)
SubmitLock ==
    /\ Live
    /\ client = "s_lock"
    /\ CanLock(mutex_)
    /\ mutex_' = ClientThread
    /\ client' = "s_emplace"
    /\ UNCHANGED <<poolVars, wpc, task, tasks_, waiting, stop_, destroyed, fut,
                   callable, cur, made, histVars, aborted>>
    /\ UNCHANGED outside

\* tasks_.emplace([task_ptr]() { (*task_ptr)(); }); }   (end of the locked scope)
\* There is no test of stop_.  An emplace into a destroyed queue writes through
\* freed storage and is never survived (ClientUseAfterDestroy).
SubmitEmplace ==
    /\ Live
    /\ client = "s_emplace"
    /\ "tasks_" \notin destroyed
    /\ tasks_' = Emplace(tasks_, cur)
    /\ submitted' = Append(submitted, cur)
    /\ mutex_' = NoThread
    /\ client' = "s_notify"
    /\ UNCHANGED <<poolVars, wpc, task, waiting, stop_, destroyed, fut, callable,
                   cur, made, dequeued, executed, resolved, atStop, lateSubmit,
                   aborted>>
    /\ UNCHANGED outside

\* cv_.notify_one(); return res;
SubmitNotify ==
    /\ Live
    /\ client = "s_notify"
    /\ \E ws \in NotifyOne(waiting) :
          /\ waiting' = waiting \ ws
          /\ wpc' = [w \in Workers |-> IF w \in ws THEN "woken" ELSE wpc[w]]
    /\ client' = "idle"
    /\ UNCHANGED <<poolVars, task, tasks_, mutex_, stop_, destroyed, fut, callable,
                   cur, made, histVars, aborted>>
    /\ UNCHANGED outside

\* submit()'s next statement uses a destroyed member and does not survive it.
ClientUseAfterDestroy ==
    /\ Live
    /\ ClientTouches(client) \cap destroyed # {}
    /\ \/ /\ client' = "hung"
          /\ UNCHANGED aborted
       \/ /\ aborted' = "use_after_destroy"
          /\ UNCHANGED client
    /\ UNCHANGED <<poolVars, wpc, task, tasks_, mutex_, waiting, stop_, destroyed,
                   fut, callable, cur, made, histVars>>
    /\ UNCHANGED outside

\* ------------------------------------------------------------------------
\* ~ThreadPool()

\* std::scoped_lock lock(mutex_)
DtorLock ==
    /\ Live
    /\ owner = "alive"
    /\ CanLock(mutex_)
    /\ mutex_' = OwnerThread
    /\ owner' = "d_stop"
    /\ UNCHANGED <<threads, workers_, joined, wpc, task, tasks_, waiting, stop_,
                   destroyed, fut, callable, client, cur, made, histVars, aborted>>
    /\ UNCHANGED outside

\* stop_ = true; }
DtorStop ==
    /\ Live
    /\ owner = "d_stop"
    /\ stop_' = TRUE
    /\ atStop' = Range(tasks_)
    /\ mutex_' = NoThread
    /\ owner' = "d_notify"
    /\ UNCHANGED <<threads, workers_, joined, wpc, task, tasks_, waiting,
                   destroyed, fut, callable, client, cur, made, submitted,
                   dequeued, executed, resolved, lateSubmit, aborted>>
    /\ UNCHANGED outside

\* cv_.notify_all();   (the destructor's body ends here)
DtorNotifyAll ==
    /\ Live
    /\ owner = "d_notify"
    /\ waiting' = waiting \ NotifyAll(waiting)
    /\ wpc' = [w \in Workers |->
                 IF w \in NotifyAll(waiting) THEN "woken" ELSE wpc[w]]
    /\ owner' = "d_cv"
    /\ UNCHANGED <<threads, workers_, joined, task, tasks_, mutex_, stop_,
                   destroyed, fut, callable, client, cur, made, histVars, aborted>>
    /\ UNCHANGED outside

\* The members the destructor has destroyed once it stands at position pc,
\* in the reverse of the declaration order workers_, tasks_, mutex_, cv_, stop_.
\* workers_ comes last, and only its destruction joins the threads.
DestroyedBefore(pc) ==
    CASE pc = "d_mutex" -> {"cv_"}
      [] pc = "d_tasks" -> {"cv_", "mutex_"}
      [] pc \in {"join", "gone"} -> {"cv_", "mutex_", "tasks_"}
      [] OTHER -> {}

\* cv_.~condition_variable()
DestroyCv ==
    /\ Live
    /\ owner = "d_cv"
    /\ owner' = "d_mutex"
    /\ destroyed' = DestroyedBefore("d_mutex")
    /\ UNCHANGED <<threads, workers_, joined, wpc, task, tasks_, mutex_, waiting,
                   stop_, fut, callable, client, cur, made, histVars, aborted>>
    /\ UNCHANGED outside

\* mutex_.~mutex()
DestroyMutex ==
    /\ Live
    /\ owner = "d_mutex"
    /\ owner' = "d_tasks"
    /\ destroyed' = DestroyedBefore("d_tasks")
    /\ UNCHANGED <<threads, workers_, joined, wpc, task, tasks_, mutex_, waiting,
                   stop_, fut, callable, client, cur, made, histVars, aborted>>
    /\ UNCHANGED outside

\* tasks_.~queue(): every std::function still queued is destroyed and with it
\* the last reference to its packaged_task, whose destructor makes a future
\* that is still pending ready with broken_promise.
DestroyTasks ==
    /\ Live
    /\ owner = "d_tasks"
    /\ owner' = "join"
    /\ destroyed' = DestroyedBefore("join")
    /\ fut' = [t \in Tasks |->
                 IF t \in Range(tasks_) /\ fut[t].kind = "pending"
                 THEN Broken(t) ELSE fut[t]]
    /\ resolved' = [t \in Tasks |->
                      IF t \in Range(tasks_) /\ fut[t].kind = "pending"
                      THEN Append(resolved[t], OwnerThread) ELSE resolved[t]]
    /\ tasks_' = <<>>
    /\ UNCHANGED <<threads, workers_, joined, wpc, task, mutex_, waiting, stop_,
                   callable, client, cur, made, submitted, dequeued, executed,
                   atStop, lateSubmit, aborted>>
    /\ UNCHANGED outside

\* workers_.~vector(): ~jthread joins one thread after the other
JoinWorker ==
    /\ Live
    /\ owner = "join"
    /\ joined < workers_
    /\ wpc[joined + 1] = "exited"
    /\ joined' = joined + 1
    /\ UNCHANGED <<owner, threads, workers_, wpc, task, tasks_, mutex_, waiting,
                   stop_, destroyed, fut, callable, client, cur, made, histVars,
                   aborted>>
    /\ UNCHANGED outside

DtorReturn ==
    /\ Live
    /\ owner = "join"
    /\ joined = workers_
    /\ owner' = "gone"
    /\ UNCHANGED <<threads, workers_, joined, wpc, task, tasks_, mutex_, waiting,
                   stop_, destroyed, fut, callable, client, cur, made, histVars,
                   aborted>>
    /\ UNCHANGED outside

\* ------------------------------------------------------------------------
Next ==
    \/ \E n \in ThreadArgs : Construct(n)
    \/ Spawn
    \/ CtorReturn
    \/ \E w \in Workers : WorkerLock(w)
    \/ \E w \in Workers : WorkerWait(w)
    \/ \E w \in Workers : SpuriousWake(w)
    \/ \E w \in Workers : WorkerRelock(w)
    \/ \E w \in Workers : WorkerExit(w)
    \/ \E w \in Workers : WorkerTake(w)
    \/ \E w \in Workers : WorkerRun(w)
    \/ \E w \in Workers : WorkerUseAfterDestroy(w)
    \/ \E b \in {"returns", "throws"} : SubmitBegin(b)
    \/ SubmitLock
    \/ SubmitEmplace
    \/ SubmitNotify
    \/ ClientUseAfterDestroy
    \/ DtorLock
    \/ DtorStop
    \/ DtorNotifyAll
    \/ DestroyCv
    \/ DestroyMutex
    \/ DestroyTasks
    \/ JoinWorker
    \/ DtorReturn

Spec == Init /\ [][Next]_vars

\* ~ThreadPool() run a second time on the same object (pool.~ThreadPool()
\* ahead of the end of the pool's scope): the class has no other shutdown
\* operation and nothing in the destructor remembers that it has run.  Its
\* first statement locks mutex_, a destroyed member, which is undefined
\* behaviour: the second run goes through as if the members were intact, or
\* the thread blocks forever, or the process is terminated.
ShutdownAgain ==
    /\ Live
    /\ owner = "gone"
    /\ \/ /\ owner' = "gone_again"
          /\ UNCHANGED aborted
       \/ /\ owner' = "hung"
          /\ UNCHANGED aborted
       \/ /\ aborted' = "second_shutdown"
          /\ UNCHANGED owner
    /\ UNCHANGED <<threads, workers_, joined, wpc, task, tasks_, mutex_, waiting,
                   stop_, destroyed, fut, callable, client, cur, made, histVars>>
    /\ UNCHANGED outside

\* The pool with a second shutdown of the same object.
TwiceNext == Next \/ ShutdownAgain

TwiceSpec == Init /\ [][TwiceNext]_vars

\* Fair scheduling: a thread that can take its next step takes it, and a thread
\* trying to lock mutex_ gets it if it is free again and again.  When the
\* client calls submit(), when the owner starts the destructor, spurious
\* wakeups and the outcomes of undefined behaviour are under no obligation.
WorkerFairness(w) ==
    /\ WF_threadPool(WorkerWait(w) \/ WorkerExit(w) \/ WorkerTake(w) \/ WorkerRun(w))
    /\ SF_threadPool(WorkerLock(w) \/ WorkerRelock(w))

Fairness ==
    /\ \A w \in Workers : WorkerFairness(w)
    /\ WF_threadPool(SubmitEmplace \/ SubmitNotify)
    /\ SF_threadPool(SubmitLock)
    /\ WF_threadPool(Spawn \/ CtorReturn)
    /\ WF_threadPool(DtorStop \/ DtorNotifyAll \/ DestroyCv \/ DestroyMutex
               \/ DestroyTasks \/ JoinWorker \/ DtorReturn)

FairSpec == Spec /\ Fairness

\* ------------------------------------------------------------------------
\* The std::future that submit() returns, in the hands of the caller

\* Reads of one future that are tried at most.
MaxReads == 2

\* std::future::get() blocks until the shared state is ready: it holds a
\* value, the callable's exception, or broken_promise
GetReturns(f) == f.kind \in {"value", "exception", "broken"}

\* A handle that keeps its shared state when it is read.
KeepsState(t) == {}

\* get() releases the shared state: afterwards valid() is false
ReleasedByGet(t) == {t}

\* what a get() on a future without shared state yields where the library
\* reports it: future_error(no_state)
NoState == [kind |-> "no_state", of |-> 0]

\* f.get() on the future of task t, once submit() has returned it.  On a valid
\* future the call blocks until the task is resolved, hands out the outcome
\* and releases the shared state.  A get() on a future that is no longer valid
\* is undefined behaviour: the library throws future_error(no_state), or the
\* call dereferences the missing state and the process is terminated.
FutureGet(t) ==
    /\ Live
    /\ fut[t].kind # "none"
    /\ t # cur \/ client = "idle"
    /\ Len(reads[t]) < MaxReads
    /\ IF t \notin released
       THEN /\ GetReturns(fut[t])
            /\ reads' = [reads EXCEPT ![t] = Append(@, fut[t])]
            /\ released' = released \cup ReleasedByGet(t)
            /\ UNCHANGED aborted
       ELSE \/ /\ reads' = [reads EXCEPT ![t] = Append(@, NoState)]
               /\ UNCHANGED <<released, aborted>>
            \/ /\ aborted' = "no_state"
               /\ UNCHANGED <<released, reads>>
    /\ UNCHANGED <<owner, threads, workers_, joined, wpc, task, tasks_, mutex_,
                   waiting, stop_, destroyed, fut, callable, client, cur, made,
                   histVars, compute, others>>

\* The pool with a caller that reads the futures it was given.
HandleNext == Next \/ \E t \in Tasks : FutureGet(t)

HandleSpec == Init /\ [][HandleNext]_vars

\* ------------------------------------------------------------------------
\* compute_parallel_thread_pool(xp, xk, dx, threads_number, tasks_number)
\* (ThreadPoolIntegrator::compute in integral.cpp is the same function body)

\* Values of the argument tasks_number that are tried.
TaskArgs == (0 - 1)..MaxTasks

\* What IntegralTask::compute returns for the t-th sub-interval, abstracted to
\* a number that differs from task to task in such a way that a sum of
\* results tells which tasks went into it, and how often.
TaskResult(t) == 2 ^ (t - 1)

\* A loop that keeps only the result it read last.
Overwrite(sum, v) == v

\* total_integral += f.get()
Accumulate(sum, v) == sum + v

\* the function is entered with its arguments; pool is about to be constructed
ComputeInit ==
    /\ PoolInit
    /\ NoReads
    /\ caller = "submit"
    /\ tasks_number \in TaskArgs
    /\ futures = <<>>
    /\ gets = 0
    /\ total_integral = 0
    /\ NoLibrary
    /\ NoPub
    /\ NoMatrixVector
    /\ NoThreadIntegrator

\* for (int i = 0; i < tasks_number; ++i) { IntegralTask task(...);
\*     ... pool.submit(task)       (the call; IntegralTask never throws)
ComputeSubmit ==
    /\ caller = "submit"
    /\ owner = "alive"
    /\ Len(futures) = made
    /\ Len(futures) < tasks_number
    /\ SubmitBegin("returns")

\* futures.push_back(<the future submit() returned>)
ComputePushBack ==
    /\ Live
    /\ caller = "submit"
    /\ client = "idle"
    /\ Len(futures) < made
    /\ futures' = Append(futures, made)
    /\ UNCHANGED <<threadPool, handles, caller, tasks_number, gets,
                   total_integral, others>>

\* the first loop ends: i < tasks_number is false
ComputeLoopEnd ==
    /\ Live
    /\ caller = "submit"
    /\ owner = "alive"
    /\ client = "idle"
    /\ Len(futures) = made
    /\ ~(Len(futures) < tasks_number)
    /\ caller' = "get"
    /\ UNCHANGED <<threadPool, handles, tasks_number, futures, gets,
                   total_integral, others>>

\* for (auto& f : futures) total_integral += f.get();
\* get() blocks until the task is resolved; a stored failure is rethrown and
\* leaves the function.
ComputeGet ==
    /\ Live
    /\ caller = "get"
    /\ gets < Len(futures)
    /\ LET t == futures[gets + 1]
       IN  /\ GetReturns(fut[t])
           /\ reads' = [reads EXCEPT ![t] = Append(@, fut[t])]
           /\ released' = released \cup ReleasedByGet(t)
           /\ IF fut[t].kind = "value"
              THEN /\ total_integral' =
                          Accumulate(total_integral, TaskResult(fut[t].of))
                   /\ gets' = gets + 1
                   /\ UNCHANGED caller
              ELSE /\ caller' = "threw"
                   /\ UNCHANGED <<gets, total_integral>>
    /\ UNCHANGED <<threadPool, tasks_number, futures, others>>

\* return total_integral;
ComputeReturn ==
    /\ Live
    /\ caller = "get"
    /\ gets = Len(futures)
    /\ caller' = "return"
    /\ UNCHANGED <<threadPool, handles, tasks_number, futures, gets,
                   total_integral, others>>

\* the end of the function's scope: futures is destroyed, then pool
ComputeScopeExit ==
    /\ caller \in {"return", "threw"}
    /\ DtorLock

ComputeNext ==
    \/ \E n \in ThreadArgs : Construct(n)
    \/ Spawn
    \/ CtorReturn
    \/ \E w \in Workers : WorkerLock(w)
    \/ \E w \in Workers : WorkerWait(w)
    \/ \E w \in Workers : SpuriousWake(w)
    \/ \E w \in Workers : WorkerRelock(w)
    \/ \E w \in Workers : WorkerExit(w)
    \/ \E w \in Workers : WorkerTake(w)
    \/ \E w \in Workers : WorkerRun(w)
    \/ \E w \in Workers : WorkerUseAfterDestroy(w)
    \/ ComputeSubmit
    \/ SubmitLock
    \/ SubmitEmplace
    \/ SubmitNotify
    \/ ComputePushBack
    \/ ComputeLoopEnd
    \/ ComputeGet
    \/ ComputeReturn
    \/ ComputeScopeExit
    \/ DtorStop
    \/ DtorNotifyAll
    \/ DestroyCv
    \/ DestroyMutex
    \/ DestroyTasks
    \/ JoinWorker
    \/ DtorReturn

ComputeSpec == ComputeInit /\ [][ComputeNext]_vars

\* ------------------------------------------------------------------------
\* Library: readers and writers (src/readers_writers/readers_writers.cpp)

\* Largest numbers of reader and writer threads passed to simulate.
MaxReaders == 2
MaxWriters == 2

Readers == 1..MaxReaders
Writers == (MaxReaders + 1)..(MaxReaders + MaxWriters)
LibThreads == Readers \cup Writers

\* The thread that the k-th emplace_back starts: the readers first.
EmplacedThread(k, rn) == IF k <= rn THEN k ELSE MaxReaders + (k - rn)

\* The place of a thread in the order of the emplace_back and request_stop
\* loops.
OrderOf(th, rn) == IF th \in Readers THEN th ELSE rn + (th - MaxReaders)

\* stop.stop_requested()
StopRequested(th) == OrderOf(th, readers_number) <= stop_requests

\* A reader that looks only at the writer that is writing.
ReaderIgnoresWaiting(w, ww) == w = 0

\* start_read's predicate: writers_ == 0 && waiting_writers_ == 0
ReaderMayEnter(w, ww) == w = 0 /\ ww = 0

\* A writer that looks only at the other writers.
WriterIgnoresReaders(r, w) == w = 0

\* start_write's predicate: readers_ == 0 && writers_ == 0
WriterMayEnter(r, w) == r = 0 /\ w = 0

LibraryInit ==
    /\ lib_sim = "spawn"
    /\ readers_number \in 0..MaxReaders
    /\ writers_number \in 0..MaxWriters
    /\ lib_started = 0
    /\ stop_requests = 0
    /\ lpc = [th \in LibThreads |-> "unborn"]
    /\ lib_mutex_ = NoThread
    /\ cond_readers_ = {}
    /\ cond_writers_ = {}
    /\ readers_ = 0
    /\ writers_ = 0
    /\ waiting_writers_ = 0
    /\ NoIntegral
    /\ NoPub
    /\ NoMatrixVector

\* readers_threads.emplace_back(Reader(i, *this)) and
\* writers_threads.emplace_back(Writer(i, *this)): the thread starts its loop
LibSpawn ==
    /\ lib_sim = "spawn"
    /\ lib_started < readers_number + writers_number
    /\ lib_started' = lib_started + 1
    /\ lpc' = [lpc EXCEPT
                 ![EmplacedThread(lib_started + 1, readers_number)] = "loop"]
    /\ UNCHANGED <<lib_sim, readers_number, writers_number, stop_requests,
                   lib_mutex_, cond_readers_, cond_writers_, readers_, writers_,
                   waiting_writers_, integral, pub, matrixVector>>

\* std::this_thread::sleep_for(duration_time) is over
LibSleep ==
    /\ lib_sim = "spawn"
    /\ lib_started = readers_number + writers_number
    /\ lib_sim' = "stop"
    /\ UNCHANGED <<readers_number, writers_number, lib_started, stop_requests,
                   lpc, lib_mutex_, cond_readers_, cond_writers_, readers_,
                   writers_, waiting_writers_, integral, pub, matrixVector>>

\* t.request_stop(), for the readers and then for the writers
LibRequestStop ==
    /\ lib_sim = "stop"
    /\ stop_requests < lib_started
    /\ stop_requests' = stop_requests + 1
    /\ UNCHANGED <<lib_sim, readers_number, writers_number, lib_started, lpc,
                   lib_mutex_, cond_readers_, cond_writers_, readers_, writers_,
                   waiting_writers_, integral, pub, matrixVector>>

\* summary();
LibSummary ==
    /\ lib_sim = "stop"
    /\ stop_requests = lib_started
    /\ lib_sim' = "join"
    /\ UNCHANGED <<readers_number, writers_number, lib_started, stop_requests,
                   lpc, lib_mutex_, cond_readers_, cond_writers_, readers_,
                   writers_, waiting_writers_, integral, pub, matrixVector>>

\* the end of simulate: the vectors of jthreads are destroyed, which joins
\* every thread
LibJoin ==
    /\ lib_sim = "join"
    /\ \A th \in LibThreads : lpc[th] \in {"unborn", "done"}
    /\ lib_sim' = "done"
    /\ UNCHANGED <<readers_number, writers_number, lib_started, stop_requests,
                   lpc, lib_mutex_, cond_readers_, cond_writers_, readers_,
                   writers_, waiting_writers_, integral, pub, matrixVector>>

\* while (!stop.stop_requested()) { sleep_for(...); library_.start_read(id_)
\* (Writer: library_.start_write(id_))
LoopTest(th) ==
    /\ lpc[th] = "loop"
    /\ lpc' = [lpc EXCEPT ![th] =
                 IF StopRequested(th) THEN "done"
                 ELSE IF th \in Readers THEN "start_read" ELSE "start_write"]
    /\ UNCHANGED <<libSim, lib_mutex_, cond_readers_, cond_writers_, readers_,
                   writers_, waiting_writers_, integral, pub, matrixVector>>

\* start_read: std::unique_lock lock(mutex_)
StartReadLock(r) ==
    /\ lpc[r] = "start_read"
    /\ CanLock(lib_mutex_)
    /\ lib_mutex_' = r
    /\ lpc' = [lpc EXCEPT ![r] = "sr_wait"]
    /\ UNCHANGED <<libSim, cond_readers_, cond_writers_, readers_, writers_,
                   waiting_writers_, integral, pub, matrixVector>>

\* cond_readers_.wait(lock, pred); readers_++; }
StartReadWait(r) ==
    /\ lpc[r] = "sr_wait"
    /\ lib_mutex_' = NoThread
    /\ IF ReaderMayEnter(writers_, waiting_writers_)
       THEN /\ readers_' = readers_ + 1
            /\ lpc' = [lpc EXCEPT ![r] = "reading"]
            /\ UNCHANGED cond_readers_
       ELSE /\ cond_readers_' = cond_readers_ \cup {r}
            /\ lpc' = [lpc EXCEPT ![r] = "sr_blocked"]
            /\ UNCHANGED readers_
    /\ UNCHANGED <<libSim, cond_writers_, writers_, waiting_writers_, integral,
                   pub, matrixVector>>

\* a wakeup no notify caused, on either condition variable
LibSpuriousWake(th) ==
    /\ th \in cond_readers_ \cup cond_writers_
    /\ cond_readers_' = cond_readers_ \ {th}
    /\ cond_writers_' = cond_writers_ \ {th}
    /\ lpc' = [lpc EXCEPT ![th] =
                 IF th \in Readers THEN "sr_woken" ELSE "sw_woken"]
    /\ UNCHANGED <<libSim, lib_mutex_, readers_, writers_, waiting_writers_,
                   integral, pub, matrixVector>>

\* the woken reader locks mutex_ again before it re-evaluates the predicate
StartReadRelock(r) ==
    /\ lpc[r] = "sr_woken"
    /\ CanLock(lib_mutex_)
    /\ lib_mutex_' = r
    /\ lpc' = [lpc EXCEPT ![r] = "sr_wait"]
    /\ UNCHANGED <<libSim, cond_readers_, cond_writers_, readers_, writers_,
                   waiting_writers_, integral, pub, matrixVector>>

\* reading(id) is over; end_read: std::unique_lock lock(mutex_)
EndReadLock(r) ==
    /\ lpc[r] = "reading"
    /\ CanLock(lib_mutex_)
    /\ lib_mutex_' = r
    /\ lpc' = [lpc EXCEPT ![r] = "end_read"]
    /\ UNCHANGED <<libSim, cond_readers_, cond_writers_, readers_, writers_,
                   waiting_writers_, integral, pub, matrixVector>>

\* readers_--; if (readers_ == 0) cond_writers_.notify_one(); }
EndRead(r) ==
    /\ lpc[r] = "end_read"
    /\ readers_' = readers_ - 1
    /\ lib_mutex_' = NoThread
    /\ \E ws \in (IF readers_ - 1 = 0 THEN NotifyOne(cond_writers_) ELSE {{}}) :
          /\ cond_writers_' = cond_writers_ \ ws
          /\ lpc' = [th \in LibThreads |->
                       IF th = r THEN "loop"
                       ELSE IF th \in ws THEN "sw_woken" ELSE lpc[th]]
    /\ UNCHANGED <<libSim, cond_readers_, writers_, waiting_writers_, integral,
                   pub, matrixVector>>

\* start_write: std::unique_lock lock(mutex_); waiting_writers_++;
StartWriteLock(w) ==
    /\ lpc[w] = "start_write"
    /\ CanLock(lib_mutex_)
    /\ lib_mutex_' = w
    /\ waiting_writers_' = waiting_writers_ + 1
    /\ lpc' = [lpc EXCEPT ![w] = "sw_wait"]
    /\ UNCHANGED <<libSim, cond_readers_, cond_writers_, readers_, writers_,
                   integral, pub, matrixVector>>

\* cond_writers_.wait(lock, pred); waiting_writers_--; writers_++; }
StartWriteWait(w) ==
    /\ lpc[w] = "sw_wait"
    /\ lib_mutex_' = NoThread
    /\ IF WriterMayEnter(readers_, writers_)
       THEN /\ waiting_writers_' = waiting_writers_ - 1
            /\ writers_' = writers_ + 1
            /\ lpc' = [lpc EXCEPT ![w] = "writing"]
            /\ UNCHANGED cond_writers_
       ELSE /\ cond_writers_' = cond_writers_ \cup {w}
            /\ lpc' = [lpc EXCEPT ![w] = "sw_blocked"]
            /\ UNCHANGED <<waiting_writers_, writers_>>
    /\ UNCHANGED <<libSim, cond_readers_, readers_, integral, pub, matrixVector>>

\* the woken writer locks mutex_ again before it re-evaluates the predicate
StartWriteRelock(w) ==
    /\ lpc[w] = "sw_woken"
    /\ CanLock(lib_mutex_)
    /\ lib_mutex_' = w
    /\ lpc' = [lpc EXCEPT ![w] = "sw_wait"]
    /\ UNCHANGED <<libSim, cond_readers_, cond_writers_, readers_, writers_,
                   waiting_writers_, integral, pub, matrixVector>>

\* writing(id) is over; end_write: std::unique_lock lock(mutex_)
EndWriteLock(w) ==
    /\ lpc[w] = "writing"
    /\ CanLock(lib_mutex_)
    /\ lib_mutex_' = w
    /\ lpc' = [lpc EXCEPT ![w] = "end_write"]
    /\ UNCHANGED <<libSim, cond_readers_, cond_writers_, readers_, writers_,
                   waiting_writers_, integral, pub, matrixVector>>

\* writers_--; if (waiting_writers_ > 0) cond_writers_.notify_one();
\* else cond_readers_.notify_all(); }
EndWrite(w) ==
    /\ lpc[w] = "end_write"
    /\ writers_' = writers_ - 1
    /\ lib_mutex_' = NoThread
    /\ IF waiting_writers_ > 0
       THEN \E ws \in NotifyOne(cond_writers_) :
               /\ cond_writers_' = cond_writers_ \ ws
               /\ lpc' = [th \in LibThreads |->
                            IF th = w THEN "loop"
                            ELSE IF th \in ws THEN "sw_woken" ELSE lpc[th]]
               /\ UNCHANGED cond_readers_
       ELSE /\ cond_readers_' = cond_readers_ \ NotifyAll(cond_readers_)
            /\ lpc' = [th \in LibThreads |->
                         IF th = w THEN "loop"
                         ELSE IF th \in NotifyAll(cond_readers_) THEN "sr_woken"
                         ELSE lpc[th]]
            /\ UNCHANGED cond_writers_
    /\ UNCHANGED <<libSim, readers_, waiting_writers_, integral, pub,
                   matrixVector>>

LibraryNext ==
    \/ LibSpawn
    \/ LibSleep
    \/ LibRequestStop
    \/ LibSummary
    \/ LibJoin
    \/ \E th \in LibThreads : LoopTest(th)
    \/ \E th \in LibThreads : LibSpuriousWake(th)
    \/ \E r \in Readers : StartReadLock(r)
    \/ \E r \in Readers : StartReadWait(r)
    \/ \E r \in Readers : StartReadRelock(r)
    \/ \E r \in Readers : EndReadLock(r)
    \/ \E r \in Readers : EndRead(r)
    \/ \E w \in Writers : StartWriteLock(w)
    \/ \E w \in Writers : StartWriteWait(w)
    \/ \E w \in Writers : StartWriteRelock(w)
    \/ \E w \in Writers : EndWriteLock(w)
    \/ \E w \in Writers : EndWrite(w)

LibrarySpec == LibraryInit /\ [][LibraryNext]_vars

\* ------------------------------------------------------------------------
\* Pub: customers, mugs and taps (src/pub/pub.cpp)

\* Largest arguments tried: customers, drinks per customer, mugs, taps.
MaxCustomers == 2
MaxDrinks == 2
MaxMugs == 2
MaxTaps == 2

Customers == 1..MaxCustomers
\* taps_ is indexed from 0
Taps == 0..(MaxTaps - 1)

\* for (int i = 0; i < drinks_required; ++i): the customer's next position
NextRound(i, d) == IF i < d THEN "acquire" ELSE "left"

\* A semaphore that lets a customer through whatever its counter is.
AcquireAtOnce(m) == TRUE

\* mugs_.acquire() returns only when the semaphore's counter is positive
CanAcquire(m) == m > 0

\* A try_acquire that succeeds on a tap in use.
TryAcquireAnyway(s) == TRUE

\* taps_[j]->try_acquire() succeeds when the binary semaphore is 1
TryAcquire(s) == s = 1

\* A customer who walks away from the tap without releasing it.
TapKept(s) == s

\* taps_[used_tap]->release()
TapReleased(s) == s + 1

\* A customer who puts the mug down and forgets the counter.
CounterForgotten(c) == c

\* ++current_mugs_available_
Incremented(c) == c + 1

\* --current_mugs_available_
Decremented(c) == c - 1

\* Pub pub(mugs_number, taps_number); pub.simulate(customers_number,
\* drinks_per_customer)
PubInit ==
    /\ pub_sim = "spawn"
    /\ customers_number \in 0..MaxCustomers
    /\ drinks_per_customer \in 0..MaxDrinks
    /\ total_mugs_ \in 0..MaxMugs
    /\ total_taps_ \in 0..MaxTaps
    /\ pub_started = 0
    /\ cpc = [c \in Customers |-> "unborn"]
    /\ drink_i = [c \in Customers |-> 0]
    /\ tap_j = [c \in Customers |-> 0]
    /\ used_tap = [c \in Customers |-> 0 - 1]
    /\ mugs_ = total_mugs_
    /\ taps_ = [j \in Taps |-> IF j < total_taps_ THEN 1 ELSE 0]
    /\ current_mugs_available_ = total_mugs_
    /\ verdict = "none"
    /\ NoIntegral
    /\ NoLibrary
    /\ NoMatrixVector

\* customer_threads.emplace_back(Customer(i, *this, drinks_per_customer)):
\* the thread enters drink() and its for loop
PubSpawn ==
    /\ pub_sim = "spawn"
    /\ pub_started < customers_number
    /\ pub_started' = pub_started + 1
    /\ cpc' = [cpc EXCEPT ![pub_started + 1] = NextRound(0, drinks_per_customer)]
    /\ UNCHANGED <<pub_sim, customers_number, drinks_per_customer, total_mugs_,
                   total_taps_, drink_i, tap_j, used_tap, mugs_, taps_,
                   current_mugs_available_, verdict, integral, library,
                   matrixVector>>

\* mugs_.acquire(): blocks while the counter is 0
TakeMug(c) ==
    /\ cpc[c] = "acquire"
    /\ CanAcquire(mugs_)
    /\ mugs_' = mugs_ - 1
    /\ cpc' = [cpc EXCEPT ![c] = "decrement"]
    /\ UNCHANGED <<pub_sim, customers_number, drinks_per_customer, total_mugs_,
                   total_taps_, pub_started, drink_i, tap_j, used_tap, taps_,
                   current_mugs_available_, verdict, integral, library,
                   matrixVector>>

\* --current_mugs_available_; int used_tap = -1; (the scan starts at j = 0)
CountDown(c) ==
    /\ cpc[c] = "decrement"
    /\ current_mugs_available_' = Decremented(current_mugs_available_)
    /\ used_tap' = [used_tap EXCEPT ![c] = 0 - 1]
    /\ tap_j' = [tap_j EXCEPT ![c] = 0]
    /\ cpc' = [cpc EXCEPT ![c] = "scan"]
    /\ UNCHANGED <<pub_sim, customers_number, drinks_per_customer, total_mugs_,
                   total_taps_, pub_started, drink_i, mugs_, taps_, verdict,
                   integral, library, matrixVector>>

\* for (j < total_taps_) if (taps_[j]->try_acquire()) { used_tap = j; break; }
\* one test of the loop; after a scan that found no tap: sleep_for(10ms) and
\* scan again
TryTap(c) ==
    /\ cpc[c] = "scan"
    /\ IF tap_j[c] < total_taps_
       THEN IF TryAcquire(taps_[tap_j[c]])
            THEN /\ taps_' = [taps_ EXCEPT ![tap_j[c]] = 0]
                 /\ used_tap' = [used_tap EXCEPT ![c] = tap_j[c]]
                 /\ cpc' = [cpc EXCEPT ![c] = "pour"]
                 /\ UNCHANGED tap_j
            ELSE /\ tap_j' = [tap_j EXCEPT ![c] = tap_j[c] + 1]
                 /\ UNCHANGED <<taps_, used_tap, cpc>>
       ELSE /\ tap_j' = [tap_j EXCEPT ![c] = 0]
            /\ UNCHANGED <<taps_, used_tap, cpc>>
    /\ UNCHANGED <<pub_sim, customers_number, drinks_per_customer, total_mugs_,
                   total_taps_, pub_started, drink_i, mugs_,
                   current_mugs_available_, verdict, integral, library,
                   matrixVector>>

\* the beer is poured; taps_[used_tap]->release();
ReleaseTap(c) ==
    /\ cpc[c] = "pour"
    /\ taps_' = [taps_ EXCEPT ![used_tap[c]] = TapReleased(@)]
    /\ cpc' = [cpc EXCEPT ![c] = "drink"]
    /\ UNCHANGED <<pub_sim, customers_number, drinks_per_customer, total_mugs_,
                   total_taps_, pub_started, drink_i, tap_j, used_tap, mugs_,
                   current_mugs_available_, verdict, integral, library,
                   matrixVector>>

\* the beer is drunk; mugs_.release();
ReturnMug(c) ==
    /\ cpc[c] = "drink"
    /\ mugs_' = mugs_ + 1
    /\ cpc' = [cpc EXCEPT ![c] = "increment"]
    /\ UNCHANGED <<pub_sim, customers_number, drinks_per_customer, total_mugs_,
                   total_taps_, pub_started, drink_i, tap_j, used_tap, taps_,
                   current_mugs_available_, verdict, integral, library,
                   matrixVector>>

\* ++current_mugs_available_; } and the loop's ++i and test
CountUp(c) ==
    /\ cpc[c] = "increment"
    /\ current_mugs_available_' = Incremented(current_mugs_available_)
    /\ drink_i' = [drink_i EXCEPT ![c] = drink_i[c] + 1]
    /\ cpc' = [cpc EXCEPT ![c] = NextRound(drink_i[c] + 1, drinks_per_customer)]
    /\ UNCHANGED <<pub_sim, customers_number, drinks_per_customer, total_mugs_,
                   total_taps_, pub_started, tap_j, used_tap, mugs_, taps_,
                   verdict, integral, library, matrixVector>>

\* the end of the block in simulate: ~vector<jthread> joins every customer
PubJoin ==
    /\ pub_sim = "spawn"
    /\ pub_started = customers_number
    /\ \A c \in Customers : cpc[c] \in {"unborn", "left"}
    /\ pub_sim' = "verify"
    /\ UNCHANGED <<customers_number, drinks_per_customer, total_mugs_,
                   total_taps_, pub_started, cpc, drink_i, tap_j, used_tap,
                   mugs_, taps_, current_mugs_available_, verdict, integral,
                   library, matrixVector>>

\* final_mugs_number = mugs_remaining();
\* verify_and_close_pub(initial_mugs_number, final_mugs_number)
PubVerify ==
    /\ pub_sim = "verify"
    /\ verdict' = IF current_mugs_available_ = total_mugs_ THEN "SUCCESS"
                                                          ELSE "ERROR"
    /\ pub_sim' = "done"
    /\ UNCHANGED <<customers_number, drinks_per_customer, total_mugs_,
                   total_taps_, pub_started, cpc, drink_i, tap_j, used_tap,
                   mugs_, taps_, current_mugs_available_, integral, library,
                   matrixVector>>

PubNext ==
    \/ PubSpawn
    \/ \E c \in Customers : TakeMug(c)
    \/ \E c \in Customers : CountDown(c)
    \/ \E c \in Customers : TryTap(c)
    \/ \E c \in Customers : ReleaseTap(c)
    \/ \E c \in Customers : ReturnMug(c)
    \/ \E c \in Customers : CountUp(c)
    \/ PubJoin
    \/ PubVerify

PubSpec == PubInit /\ [][PubNext]_vars

\* Fair scheduling: a customer thread that can take its next step takes it,
\* and so does the thread that runs simulate.
PubFairSpec ==
    /\ PubSpec
    /\ \A c \in Customers :
          WF_pub(TakeMug(c) \/ CountDown(c) \/ TryTap(c) \/ ReleaseTap(c)
                    \/ ReturnMug(c) \/ CountUp(c))
    /\ WF_pub(PubSpawn \/ PubJoin \/ PubVerify)

\* ------------------------------------------------------------------------
\* MatrixVector: the jthread decompositions
\* (src/matrix_vector/matrix_vector_execution.cpp)

\* Largest matrix dimension and largest hardware_concurrency() tried.
MaxN == 3
MaxHw == 3

Methods == {"row_col", "col_row_block", "col_col"}
\* thread_id, from 0
ThreadIds == 0..(MaxHw - 1)

\* a_[k] = 1.0001 * k, in units of 0.0001 so that the arithmetic is exact
ElementA(k) == 10001 * k

\* x_[j] = n_ - j
ElementX(j, n) == n - j

\* A split that rounds the chunk size down.
ChunkRoundedDown(n, t) == n \div t

\* cols_per_thread / rows_per_thread = (n_ + num_threads - 1) / num_threads
ChunkSize(n, t) == (n + t - 1) \div t

\* start_col / start_row = t * cols_per_thread
ChunkStart(t, chunk) == t * chunk

\* end_col / end_row = std::min(start + cols_per_thread, n_)
ChunkEnd(start, chunk, n) == IF start + chunk < n THEN start + chunk ELSE n

\* The index into a_ of element (i, j): mat_vec_row_col_jthread reads the
\* matrix as row-major, the other two as column-major.
IndexOf(m, i, j, n) == IF m = "row_col" THEN n * i + j ELSE i + j * n

\* mat_vec_row_col_jthread and mat_vec_col_col_jthread give a thread a range
\* of columns and all rows; mat_vec_col_row_block_jthread gives it a range of
\* rows and all columns (which it visits block by block, in ascending order).
FirstJ(m, t, n, nt) ==
    IF m = "col_row_block" THEN 0 ELSE ChunkStart(t, ChunkSize(n, nt))
EndJ(m, t, n, nt) ==
    IF m = "col_row_block" THEN n
    ELSE ChunkEnd(ChunkStart(t, ChunkSize(n, nt)), ChunkSize(n, nt), n)
FirstI(m, t, n, nt) ==
    IF m = "col_row_block" THEN ChunkStart(t, ChunkSize(n, nt)) ELSE 0
EndI(m, t, n, nt) ==
    IF m = "col_row_block"
    THEN ChunkEnd(ChunkStart(t, ChunkSize(n, nt)), ChunkSize(n, nt), n)
    ELSE n

RECURSIVE SumUpTo(_, _)
SumUpTo(f, k) == IF k < 0 THEN 0 ELSE f[k] + SumUpTo(f, k - 1)

\* multiply_row_sequential / multiply_col_sequential, as set_reference picks
\* them for the method (z_ = y_)
Reference(m, n) ==
    [i \in 0..(n - 1) |->
        SumUpTo([j \in 0..(n - 1) |->
                    ElementA(IndexOf(m, i, j, n)) * ElementX(j, n)], n - 1)]

\* MatrixVector mv(n); one of the three methods is called; y_ is filled with
\* 0.0, local_results(num_threads, vector(n_, 0.0))
MatrixVectorInit ==
    /\ mv_phase = "spawn"
    /\ method \in Methods
    /\ n_ \in 1..MaxN
    /\ num_threads \in 1..MaxHw
    /\ mv_started = 0
    /\ next_j = [t \in ThreadIds |-> 0]
    /\ finished = {}
    /\ local_results =
          [t \in 0..(num_threads - 1) |-> [i \in 0..(n_ - 1) |-> 0]]
    /\ y_ = [i \in 0..(n_ - 1) |-> 0]
    /\ out_of_range = FALSE
    /\ NoIntegral
    /\ NoLibrary
    /\ NoPub

\* threads.emplace_back(lambda): thread t starts its outer loop
MvSpawn ==
    /\ mv_phase = "spawn"
    /\ mv_started < num_threads
    /\ mv_started' = mv_started + 1
    /\ next_j' = [next_j EXCEPT
                    ![mv_started] = FirstJ(method, mv_started, n_, num_threads)]
    /\ UNCHANGED <<mv_phase, method, n_, num_threads, finished, local_results,
                   y_, out_of_range, integral, library, pub>>

\* one pass of the loop over j: y_local[i] += a_[...] * x_[j] for the
\* thread's rows i
MvColumn(t) ==
    /\ t < mv_started
    /\ t \notin finished
    /\ next_j[t] < EndJ(method, t, n_, num_threads)
    /\ LET j == next_j[t]
           rows == FirstI(method, t, n_, num_threads)
                      ..(EndI(method, t, n_, num_threads) - 1)
       IN  /\ local_results' =
                 [local_results EXCEPT ![t] =
                     [i \in 0..(n_ - 1) |->
                         IF i \in rows
                         THEN @[i] + ElementA(IndexOf(method, i, j, n_))
                                        * ElementX(j, n_)
                         ELSE @[i]]]
           /\ out_of_range' =
                 (\/ out_of_range
                  \/ j \notin 0..(n_ - 1)
                  \/ \E i \in rows :
                        \/ i \notin 0..(n_ - 1)
                        \/ IndexOf(method, i, j, n_) \notin 0..(n_ * n_ - 1))
    /\ next_j' = [next_j EXCEPT ![t] = next_j[t] + 1]
    /\ UNCHANGED <<mv_phase, method, n_, num_threads, mv_started, finished, y_,
                   integral, library, pub>>

\* the loop over j is over: the lambda returns
MvThreadEnd(t) ==
    /\ t < mv_started
    /\ t \notin finished
    /\ ~(next_j[t] < EndJ(method, t, n_, num_threads))
    /\ finished' = finished \cup {t}
    /\ UNCHANGED <<mv_phase, method, n_, num_threads, mv_started, next_j,
                   local_results, y_, out_of_range, integral, library, pub>>

\* for (auto& th : threads) th.join();
MvJoin ==
    /\ mv_phase = "spawn"
    /\ mv_started = num_threads
    /\ finished = 0..(num_threads - 1)
    /\ mv_phase' = "reduce"
    /\ UNCHANGED <<method, n_, num_threads, mv_started, next_j, finished,
                   local_results, y_, out_of_range, integral, library, pub>>

\* for i, for t: y_[i] += local_results[t][i];
MvReduce ==
    /\ mv_phase = "reduce"
    /\ y_' = [i \in 0..(n_ - 1) |->
                y_[i] + SumUpTo([t \in 0..(num_threads - 1) |->
                                    local_results[t][i]], num_threads - 1)]
    /\ mv_phase' = "done"
    /\ UNCHANGED <<method, n_, num_threads, mv_started, next_j, finished,
                   local_results, out_of_range, integral, library, pub>>

MatrixVectorNext ==
    \/ MvSpawn
    \/ \E t \in ThreadIds : MvColumn(t)
    \/ \E t \in ThreadIds : MvThreadEnd(t)
    \/ MvJoin
    \/ MvReduce

MatrixVectorSpec == MatrixVectorInit /\ [][MatrixVectorNext]_vars

\* ------------------------------------------------------------------------
\* ThreadIntegrator::compute (src/integral/integral.cpp) and parallelIntegral
\* (src/integration/integration.cpp): jthreads that share an atomic counter

\* Largest numbers of threads and of tasks tried.
MaxIntegratorThreads == 2
MaxIntegratorTasks == 2

Functions == {"compute", "parallelIntegral"}
IntegratorThreads == 1..MaxIntegratorThreads

\* The indices fetch_add can hand out: every thread fetches one index past
\* the tasks before it leaves its loop.
Indices == 0..(MaxIntegratorTasks + MaxIntegratorThreads)

\* A loop that lets the index tasks_number_ through.
LoopEndsOneLate(i, n) == i > n

\* if (idx >= tasks_number_) break;
LoopEnds(i, n) == i >= n

\* The sum is taken while the threads may still be running.
SumBeforeJoin(f) == "accumulate"

\* What follows the loop that emplaces the threads.  In compute the vector of
\* jthreads lives in an inner block, whose end joins them; in
\* parallelIntegral it is a local of the function, and the return statement
\* comes next.
AfterEmplace(f) == IF f = "compute" THEN "join" ELSE "accumulate"

\* ~vector<jthread>: after the return value is computed in parallelIntegral,
\* before std::accumulate in compute
AfterJoin(f) == IF f = "compute" THEN "accumulate" ELSE "returned"
AfterAccumulate(f) == IF f = "compute" THEN "returned" ELSE "join"

\* The threads that are in the middle of results[idx] = ... for slot i
StoringInto(i) == {th \in IntegratorThreads : tpc[th] = "storing" /\ idx[th] = i}

\* results(tasks_number_, 0.0); task_index{0}; no thread yet
ThreadIntegratorInit ==
    /\ function \in Functions
    /\ main_pc = "emplace"
    /\ tasks_number_ \in 0..MaxIntegratorTasks
    /\ threads_number_ \in 1..MaxIntegratorThreads
    /\ emplaced = 0
    /\ task_index = 0
    /\ tpc = [th \in IntegratorThreads |-> "unborn"]
    /\ idx = [th \in IntegratorThreads |-> 0]
    /\ results = [i \in 0..(tasks_number_ - 1) |-> 0]
    /\ writes = [i \in Indices |-> <<>>]
    /\ next_slot = 0
    /\ accumulated = 0
    /\ raced = FALSE
    /\ PoolInit
    /\ NoReads
    /\ NoCompute
    /\ NoLibrary
    /\ NoPub
    /\ NoMatrixVector

\* threads.emplace_back(compute_subintervals)
TiEmplace ==
    /\ main_pc = "emplace"
    /\ emplaced < threads_number_
    /\ emplaced' = emplaced + 1
    /\ tpc' = [tpc EXCEPT ![emplaced + 1] = "fetch"]
    /\ UNCHANGED <<function, main_pc, tasks_number_, threads_number_,
                   task_index, idx, results, writes, next_slot, accumulated,
                   raced>>
    /\ UNCHANGED <<threadPool, handles, compute, library, pub, matrixVector>>

\* i < threads_number_ fails
TiEmplaceEnd ==
    /\ main_pc = "emplace"
    /\ ~(emplaced < threads_number_)
    /\ main_pc' = AfterEmplace(function)
    /\ UNCHANGED <<function, tasks_number_, threads_number_, emplaced,
                   task_index, tpc, idx, results, writes, next_slot,
                   accumulated, raced>>
    /\ UNCHANGED <<threadPool, handles, compute, library, pub, matrixVector>>

\* int idx = task_index.fetch_add(1); if (idx >= tasks_number_) break;
TiFetchAdd(th) ==
    /\ tpc[th] = "fetch"
    /\ idx' = [idx EXCEPT ![th] = task_index]
    /\ task_index' = task_index + 1
    /\ tpc' = [tpc EXCEPT ![th] = IF LoopEnds(task_index, tasks_number_)
                                  THEN "done" ELSE "compute"]
    /\ UNCHANGED <<function, main_pc, tasks_number_, threads_number_, emplaced,
                   results, writes, next_slot, accumulated, raced>>
    /\ UNCHANGED <<threadPool, handles, compute, library, pub, matrixVector>>

\* IntegralTask task(sub_xp, sub_xk, dx_); task.compute()
TiComputeTask(th) ==
    /\ tpc[th] = "compute"
    /\ tpc' = [tpc EXCEPT ![th] = "storing"]
    /\ UNCHANGED <<function, main_pc, tasks_number_, threads_number_, emplaced,
                   task_index, idx, results, writes, next_slot, accumulated,
                   raced>>
    /\ UNCHANGED <<threadPool, handles, compute, library, pub, matrixVector>>

\* results[idx] = the value computed
TiStore(th) ==
    /\ tpc[th] = "storing"
    /\ results' = IF idx[th] \in DOMAIN results
                  THEN [results EXCEPT ![idx[th]] = TaskResult(idx[th] + 1)]
                  ELSE results
    /\ writes' = [writes EXCEPT ![idx[th]] = Append(@, th)]
    /\ tpc' = [tpc EXCEPT ![th] = "fetch"]
    /\ UNCHANGED <<function, main_pc, tasks_number_, threads_number_, emplaced,
                   task_index, idx, next_slot, accumulated, raced>>
    /\ UNCHANGED <<threadPool, handles, compute, library, pub, matrixVector>>

\* ~vector<jthread>: every jthread is joined
TiJoin ==
    /\ main_pc = "join"
    /\ \A th \in 1..emplaced : tpc[th] = "done"
    /\ main_pc' = AfterJoin(function)
    /\ UNCHANGED <<function, tasks_number_, threads_number_, emplaced,
                   task_index, tpc, idx, results, writes, next_slot,
                   accumulated, raced>>
    /\ UNCHANGED <<threadPool, handles, compute, library, pub, matrixVector>>

\* std::accumulate reads the next slot.  A read of a slot that a thread is
\* storing into is a data race: it gets the old value or the new one.
TiAccumulateStep ==
    /\ main_pc = "accumulate"
    /\ next_slot < tasks_number_
    /\ \E v \in IF StoringInto(next_slot) # {}
                THEN {results[next_slot], TaskResult(next_slot + 1)}
                ELSE {results[next_slot]} :
          accumulated' = accumulated + v
    /\ raced' = (raced \/ StoringInto(next_slot) # {})
    /\ next_slot' = next_slot + 1
    /\ UNCHANGED <<function, main_pc, tasks_number_, threads_number_, emplaced,
                   task_index, tpc, idx, results, writes>>
    /\ UNCHANGED <<threadPool, handles, compute, library, pub, matrixVector>>

\* std::accumulate is at results.end()
TiAccumulateEnd ==
    /\ main_pc = "accumulate"
    /\ ~(next_slot < tasks_number_)
    /\ main_pc' = AfterAccumulate(function)
    /\ UNCHANGED <<function, tasks_number_, threads_number_, emplaced,
                   task_index, tpc, idx, results, writes, next_slot,
                   accumulated, raced>>
    /\ UNCHANGED <<threadPool, handles, compute, library, pub, matrixVector>>

ThreadIntegratorNext ==
    \/ TiEmplace
    \/ TiEmplaceEnd
    \/ \E th \in IntegratorThreads : TiFetchAdd(th)
    \/ \E th \in IntegratorThreads : TiComputeTask(th)
    \/ \E th \in IntegratorThreads : TiStore(th)
    \/ TiJoin
    \/ TiAccumulateStep
    \/ TiAccumulateEnd

ThreadIntegratorSpec == ThreadIntegratorInit /\ [][ThreadIntegratorNext]_vars

\* Every thread that can take its next step takes it.
ThreadIntegratorFairSpec ==
    /\ ThreadIntegratorSpec
    /\ \A th \in IntegratorThreads :
          WF_threadIntegrator(TiFetchAdd(th) \/ TiComputeTask(th) \/ TiStore(th))
    /\ WF_threadIntegrator(TiEmplace \/ TiEmplaceEnd \/ TiJoin
                              \/ TiAccumulateStep \/ TiAccumulateEnd)

\* ------------------------------------------------------------------------
\* Vocabulary of the claims

Spawned == 1..workers_
Ready(t) == fut[t].kind \in {"value", "exception", "broken"}
DequeuedBy(t) == {d[2] : d \in {e \in Range(dequeued) : e[1] = t}}
TimesDequeued(t) == Cardinality({i \in 1..Len(dequeued) : dequeued[i][1] = t})
TimesExecuted(t) == Cardinality({i \in 1..Len(executed) : executed[i][1] = t})
Holders(t) == {w \in Workers : task[w] = t}
AllWorkersExited == \A w \in Spawned : wpc[w] = "exited"

\* ------------------------------------------------------------------------
\* C1: every submitted task is removed from the queue by exactly one worker, is
\* executed at most once, and its future is made ready at most once and only by
\* the worker that dequeued it; no task is held by two workers.  Stated for a
\* pool that has workers.  The code violates it: ~ThreadPool destroys tasks_
\* before the workers are joined, so a task still queued is dequeued by no
\* worker and its future is made ready (broken_promise) by the owner thread.
C1_ExactlyOneWorker ==
    workers_ >= 1 =>
        \A t \in Tasks :
            /\ TimesDequeued(t) <= 1
            /\ TimesExecuted(t) <= 1
            /\ Len(resolved[t]) <= 1
            /\ Cardinality(Holders(t)) <= 1
            /\ \A i \in 1..Len(resolved[t]) : resolved[t][i] \in DequeuedBy(t)

\* The half of C1 that the code keeps: no task is dequeued, executed or made
\* ready twice, and no two workers hold the same task.
AtMostOnce ==
    \A t \in Tasks :
        /\ TimesDequeued(t) <= 1
        /\ TimesExecuted(t) <= 1
        /\ Len(resolved[t]) <= 1
        /\ Cardinality(Holders(t)) <= 1
        /\ \A i \in 1..Len(resolved[t]) :
              resolved[t][i] \in DequeuedBy(t) \cup {OwnerThread}

\* ------------------------------------------------------------------------
\* C2: in a pool with at least one worker that is not being destroyed, under
\* fair scheduling every task that submit() has put in the queue is eventually
\* dequeued by a worker and its future becomes ready; no notification is lost
\* so that a task stays queued while the workers stay blocked.
C2_NoLostWakeup ==
    \A t \in Tasks :
        (t \in Range(submitted) /\ threads >= 1)
            ~> ((DequeuedBy(t) # {} /\ Ready(t)) \/ owner # "alive")

\* Every submission was made and every future is ready, the pool still alive
\* and a worker back in cv_.wait.
C2_Witness ==
    /\ owner = "alive"
    /\ threads >= 1
    /\ Len(submitted) = MaxTasks
    /\ waiting # {}
    /\ \A t \in Tasks : DequeuedBy(t) # {} /\ Ready(t)

\* ------------------------------------------------------------------------
\* C3: workers remove tasks from the queue in the order submit() appended them:
\* the k-th dequeue returns the k-th submitted task, for any number of workers;
\* a pool with a single worker executes the tasks in submission order.
C3_FifoDispatch ==
    /\ Len(dequeued) <= Len(submitted)
    /\ \A k \in 1..Len(dequeued) : dequeued[k][1] = submitted[k]
    /\ threads = 1 =>
          /\ Len(executed) <= Len(submitted)
          /\ \A k \in 1..Len(executed) : executed[k][1] = submitted[k]

\* A single worker has dequeued and executed every submitted task.
C3_Witness ==
    /\ threads = 1
    /\ Len(submitted) = MaxTasks
    /\ Len(dequeued) = MaxTasks
    /\ Len(executed) = MaxTasks

\* ------------------------------------------------------------------------
\* C4: the tasks that are queued when the destructor sets stop_ are all executed
\* and their futures made ready before the worker threads terminate; none is
\* dropped by shutdown.  Stated for a pool that has workers.  The code violates
\* it: tasks_ is destroyed before the workers are joined (see C5), and what is
\* still queued then is destroyed unexecuted.
C4_QueuedTasksDrained ==
    workers_ >= 1 =>
        \A t \in atStop :
            /\ fut[t].kind # "broken"
            /\ AllWorkersExited =>
                  TimesExecuted(t) = 1 /\ fut[t].kind \in {"value", "exception"}

\* ------------------------------------------------------------------------
\* C5: tasks_, mutex_ and cv_ are destroyed only after every worker thread has
\* exited, so no worker is about to lock mutex_, wait on cv_ or read tasks_
\* once that member is destroyed.  The code violates it: workers_ is declared
\* first and therefore destroyed, and joined, last.
C5_MembersOutliveWorkers ==
    /\ destroyed # {} => AllWorkersExited
    /\ \A w \in Spawned : WorkerTouches(wpc[w]) \cap destroyed = {}

\* ------------------------------------------------------------------------
\* C6: once the destructor has set stop_ and called notify_all, every worker
\* eventually exits its loop and the join of the teardown completes.  The code
\* violates it because of C5: a worker that comes back to a destroyed mutex_
\* or tasks_ has undefined behaviour and may block forever or end the process.
\* (A submit() racing the teardown is left out of the statement.)
C6_WorkersExitAfterStop ==
    (owner = "d_cv" /\ client = "idle")
        ~> ((AllWorkersExited /\ owner = "gone") \/ client # "idle")

\* ------------------------------------------------------------------------
\* C7: a submit() called after the stop flag is set is rejected: its task is
\* never appended to the queue.  Stated for a pool that has workers.  The code
\* violates it: submit() never reads stop_ and emplaces the task like any
\* other.
C7_LateSubmitRejected ==
    workers_ >= 1 => \A t \in lateSubmit : t \notin Range(submitted)

\* ------------------------------------------------------------------------
\* C8: constructing a pool with a worker count of zero or less fails; a pool
\* without workers is never created.  The code violates it: the constructor's
\* loop simply does not run and the pool exists with no worker.
C8_NonPositiveCountRejected ==
    owner \notin {"unborn", "ctor"} => threads >= 1 /\ workers_ >= 1

\* ------------------------------------------------------------------------
\* C9: when a callable raises, the failure is stored in that task's own future;
\* no exception ends the worker or the process, the worker goes back to the top
\* of its loop, and every task a worker has run holds its own outcome: its own
\* value if it returns, its own failure if it raises.
C9_FailureIsolated ==
    /\ [](/\ aborted # "exception"
          /\ \A k \in 1..Len(executed) :
                LET t == executed[k][1]
                IN  /\ fut[t].of = t
                    /\ fut[t].kind = IF callable[t] = "throws" THEN "exception"
                                                                ELSE "value")
    /\ [][\A w \in Workers :
             (/\ wpc[w] = "run"
              /\ wpc'[w] # "run"
              /\ task[w] # 0
              /\ callable[task[w]] = "throws")
                 => /\ wpc'[w] = "lock"
                    /\ aborted' = "no"
                    /\ fut'[task[w]] = [kind |-> "exception", of |-> task[w]]
                    /\ \A t \in Tasks \ {task[w]} : fut'[t] = fut[t]]_vars

\* A worker ran a task that raised and, after it, a task that returned; each
\* future holds its own outcome.
C9_Witness ==
    /\ Len(executed) >= 2
    /\ callable[executed[1][1]] = "throws"
    /\ callable[executed[2][1]] = "returns"
    /\ executed[1][2] = executed[2][2]
    /\ fut[executed[1][1]].kind = "exception"
    /\ fut[executed[2][1]].kind = "value"

\* ------------------------------------------------------------------------
\* C10: a worker leaves its loop only from the idle state, when the stop flag
\* is set and the queue is empty: never with tasks queued, never holding a
\* claimed task, never with the stop flag unset.
C10_ExitOnlyWhenStoppedAndEmpty ==
    [][\A w \in Workers :
          (wpc[w] # "exited" /\ wpc'[w] = "exited") =>
              /\ wpc[w] = "check"
              /\ task[w] = 0
              /\ stop_
              /\ tasks_ = <<>>]_vars

\* A worker has exited after it executed a task.
C10_Witness ==
    \E w \in Spawned :
        /\ wpc[w] = "exited"
        /\ \E k \in 1..Len(executed) : executed[k][2] = w

\* ------------------------------------------------------------------------
\* C11: a task that a worker holds (already dequeued) when the destructor sets
\* stop_ is run to completion by that worker and its future is made ready with
\* the callable's value or failure; shutdown never cancels or discards it.
\* The code violates it because of C5: while the task runs, the members are
\* destroyed under the other worker, whose use of them is undefined behaviour
\* and may end the process before the task has completed.
\* (A submit() racing the teardown is left out of the statement.)
C11_DequeuedTaskCompletes ==
    \A w \in Workers : \A t \in Tasks :
        (owner = "d_notify" /\ task[w] = t /\ client = "idle")
            ~> (\/ TimesExecuted(t) = 1 /\ fut[t].kind \in {"value", "exception"}
                \/ client # "idle")

\* ------------------------------------------------------------------------
\* C12: the statements of the worker loop, of submit() and of the destructor's
\* body that read or write tasks_ or stop_ are executed by a thread that holds
\* mutex_, and at most one thread is between its lock and its unlock.
\* (The destruction of the members after the destructor's body is C5's
\* subject.)
MutexHolders ==
    {w \in Workers : wpc[w] \in {"pred", "check"}}
        \cup (IF client = "s_emplace" THEN {ClientThread} ELSE {})
        \cup (IF owner = "d_stop" THEN {OwnerThread} ELSE {})

InFlight(w) ==
    {t \in Tasks :
        Cardinality({k \in 1..Len(dequeued) : dequeued[k] = <<t, w>>})
            > Cardinality({k \in 1..Len(executed) : executed[k] = <<t, w>>})}

C13_OneTaskPerWorker ==
    /\ \A w \in Workers :
          /\ Cardinality(InFlight(w)) <= 1
          /\ \A t \in InFlight(w) : wpc[w] = "run" /\ task[w] = t
    /\ Cardinality(UNION {InFlight(w) : w \in Workers}) <= workers_

\* Both workers of a two-worker pool are executing a task at the same time.
C13_Witness ==
    /\ workers_ = MaxThreads
    /\ \A w \in Spawned : InFlight(w) # {} /\ wpc[w] = "run"

\* ------------------------------------------------------------------------
\* C20: a worker never takes the front of an empty queue.  Whenever it stands
\* past cv_.wait with the mutex held and does not return, the queue is
\* non-empty; every dequeue yields a task, and no worker ever calls an empty
\* std::function.  This holds after a notification, after a spurious wakeup
\* and when two workers were woken for one task.
C20_NeverFrontOfEmpty ==
    /\ \A w \in Workers :
          (wpc[w] = "check" /\ ~ExitCondition(stop_, tasks_)) => tasks_ # <<>>
    /\ \A k \in 1..Len(dequeued) : dequeued[k][1] \in Tasks
    /\ aborted # "bad_function_call"

\* A worker has been woken and will find nothing to take: the queue is empty,
\* the flag unset, and the other worker is running the task that was submitted.
C20_Witness ==
    \E w \in Spawned : \E v \in Spawned \ {w} :
        /\ wpc[w] = "woken"
        /\ tasks_ = <<>>
        /\ ~stop_
        /\ dequeued # <<>>
        /\ \A k \in 1..Len(dequeued) : dequeued[k][2] = v
        /\ wpc[v] = "run"

\* ------------------------------------------------------------------------
\* C16: shutting the same pool down a second time is a no-op: the second run
\* raises no error, does not block and joins no worker again.  The code
\* violates it: the only shutdown is ~ThreadPool, which keeps no record of
\* having run; a second run locks the already destroyed mutex_, and neither
\* its return nor the survival of the process is guaranteed.
C16_SecondShutdownIsNoOp ==
    /\ owner # "hung"
    /\ aborted # "second_shutdown"
    /\ owner = "gone_again" => joined = workers_

RECURSIVE SumOfResults(_)
SumOfResults(S) ==
    IF S = {} THEN 0
    ELSE LET t == CHOOSE x \in S : TRUE
         IN  TaskResult(t) + SumOfResults(S \ {t})

C14_TotalHasEachResultOnce ==
    /\ Len(submitted) <= (IF tasks_number > 0 THEN tasks_number ELSE 0)
    /\ caller = "return" =>
          /\ tasks_number >= 0 =>
                Len(submitted) = tasks_number /\ Len(futures) = tasks_number
          /\ \A t \in Range(submitted) :
                TimesExecuted(t) = 1 /\ fut[t].kind = "value"
          /\ Cardinality(Range(submitted)) = Len(submitted)
          /\ total_integral = SumOfResults(Range(submitted))

\* The function returns the sum of MaxTasks results after the task submitted
\* last was completed first.
C14_Witness ==
    /\ caller = "return"
    /\ tasks_number = MaxTasks
    /\ Len(executed) = MaxTasks
    /\ executed[1][1] = MaxTasks
    /\ total_integral = SumOfResults(Tasks)

\* ------------------------------------------------------------------------
\* C17: in Library, in every reachable state at most one writer is active and
\* no reader is active while a writer is: writers_ <= 1 and not (readers_ > 0
\* and writers_ > 0), and the counters say what the threads do: readers_ is
\* the number of threads between start_read and end_read, writers_ the number
\* between start_write and end_write.  Several readers may read together.
\* readers_, writers_ and waiting_writers_ are never negative.
ActiveReaders == {r \in Readers : lpc[r] \in {"reading", "end_read"}}
ActiveWriters == {w \in Writers : lpc[w] \in {"writing", "end_write"}}

C17_ReadersWritersExclusion ==
    /\ writers_ <= 1
    /\ ~(readers_ > 0 /\ writers_ > 0)
    /\ readers_ = Cardinality(ActiveReaders)
    /\ writers_ = Cardinality(ActiveWriters)
    /\ readers_ >= 0
    /\ writers_ >= 0
    /\ waiting_writers_ >= 0

\* Two readers are reading together while a writer waits for them.
C17_Witness ==
    /\ readers_ = 2
    /\ \A r \in Readers : lpc[r] = "reading"
    /\ waiting_writers_ >= 1
    /\ cond_writers_ # {}

\* ------------------------------------------------------------------------
\* C18: in Pub::simulate, for any numbers of customers, mugs, taps and drinks
\* per customer, once every customer thread has been joined the available-mug
\* counter equals the initial number of mugs, and verify_and_close_pub reports
\* SUCCESS, never the mismatch.
C18_AllMugsReturned ==
    /\ pub_sim \in {"verify", "done"} =>
          /\ current_mugs_available_ = total_mugs_
          /\ mugs_ = total_mugs_
    /\ verdict # "ERROR"
    /\ pub_sim = "done" => verdict = "SUCCESS"

\* Two customers have each had two drinks from a single mug and a single tap,
\* and the pub has been closed with SUCCESS.
C18_Witness ==
    /\ pub_sim = "done"
    /\ verdict = "SUCCESS"
    /\ customers_number = MaxCustomers
    /\ drinks_per_customer = MaxDrinks
    /\ total_mugs_ = 1
    /\ total_taps_ = 1
    /\ \A c \in Customers : drink_i[c] = MaxDrinks

\* ------------------------------------------------------------------------
\* C19: with exact arithmetic each jthread decomposition leaves in y_ the
\* vector of its sequential reference, for every n_ >= 1 and every thread
\* count >= 1.  The threads' ranges are pairwise disjoint and cover [0, n_)
\* exactly once; a thread whose start is at or past n_ does no work; no index
\* is out of range; the partial vectors are added into y_ only when every
\* thread has finished, each exactly once.
ChunkOf(t) ==
    LET chunk == ChunkSize(n_, num_threads)
    IN  {k \in 0..(n_ - 1) :
            /\ ChunkStart(t, chunk) <= k
            /\ k < ChunkEnd(ChunkStart(t, chunk), chunk, n_)}

C19_DecompositionMatchesReference ==
    /\ ~out_of_range
    /\ \A k \in 0..(n_ - 1) :
          Cardinality({t \in 0..(num_threads - 1) : k \in ChunkOf(t)}) = 1
    /\ \A t \in 0..(num_threads - 1) :
          ChunkStart(t, ChunkSize(n_, num_threads)) >= n_ =>
              \A i \in 0..(n_ - 1) : local_results[t][i] = 0
    /\ mv_phase \in {"reduce", "done"} => finished = 0..(num_threads - 1)
    /\ mv_phase = "reduce" => \A i \in 0..(n_ - 1) : y_[i] = 0
    /\ mv_phase = "done" => y_ = Reference(method, n_)

\* The row decomposition of a 2 x 2 matrix over three threads is done: the
\* third thread starts at row 2 and had nothing to do.
C19_Witness ==
    /\ mv_phase = "done"
    /\ method = "col_row_block"
    /\ n_ = 2
    /\ num_threads = 3
    /\ y_ = Reference("col_row_block", 2)
    /\ y_[1] # 0

\* ------------------------------------------------------------------------
\* C21: a worker runs its task only after it has released mutex_, and the
\* tasks in execution at one time are held by different workers, so they are
\* never more than the workers.  (That two tasks do run at the same time, and
\* that the second task submitted can be ready while the first is still
\* running, is the state C21_Witness.)
C21_TasksRunOutsideTheLock ==
    /\ \A w \in Workers : wpc[w] = "run" => mutex_ # w
    /\ Cardinality({t \in Tasks : \E w \in Workers :
                        wpc[w] = "run" /\ task[w] = t})
          <= workers_

\* Task 1 was dequeued first and is still running on its worker; task 2 was
\* dequeued while task 1 ran, has been executed on another worker, and its
\* future is ready while that of task 1 is pending.
C21_Witness ==
    /\ aborted = "no"
    /\ Len(dequeued) = 2
    /\ dequeued[1][1] = 1
    /\ dequeued[2][1] = 2
    /\ dequeued[1][2] # dequeued[2][2]
    /\ wpc[dequeued[1][2]] = "run"
    /\ task[dequeued[1][2]] = 1
    /\ executed = <<dequeued[2]>>
    /\ fut[1].kind = "pending"
    /\ fut[2].kind \in {"value", "exception"}

\* ------------------------------------------------------------------------
\* C22: in ThreadIntegrator::compute and in parallelIntegral each index below
\* the number of tasks is claimed through the atomic counter by one thread
\* only, no index at or past the number of tasks is computed or stored, and
\* each slot of results is stored into once: never twice, and once when all
\* the threads are done.
Claimed(th) == tpc[th] \in {"compute", "storing"}

AllThreadsDone ==
    /\ emplaced = threads_number_
    /\ \A th \in 1..emplaced : tpc[th] = "done"

C22_EachIndexClaimedOnce ==
    /\ \A th \in IntegratorThreads : Claimed(th) => idx[th] < tasks_number_
    /\ \A a, b \in IntegratorThreads :
          (a # b /\ Claimed(a) /\ Claimed(b)) => idx[a] # idx[b]
    /\ \A th \in IntegratorThreads : Claimed(th) => writes[idx[th]] = <<>>
    /\ \A i \in Indices : Len(writes[i]) <= 1
    /\ \A i \in Indices : i >= tasks_number_ => writes[i] = <<>>
    /\ AllThreadsDone =>
          \A i \in 0..(tasks_number_ - 1) : Len(writes[i]) = 1

\* Two threads have shared two tasks of parallelIntegral, one each.
C22_Witness ==
    /\ function = "parallelIntegral"
    /\ tasks_number_ = 2
    /\ AllThreadsDone
    /\ writes[0] # writes[1]
    /\ Len(writes[0]) = 1
    /\ Len(writes[1]) = 1
    /\ task_index = 4

\* C23: in ThreadIntegrator::compute a thread leaves its loop only with an
\* index at or past tasks_number_, every thread started does leave it, and
\* whenever std::accumulate runs all the threads are done and every slot
\* holds the result of its task.
AllSlotsWritten ==
    \A i \in 0..(tasks_number_ - 1) :
        /\ Len(writes[i]) = 1
        /\ results[i] = TaskResult(i + 1)

C23_SummedAfterJoin ==
    /\ [](function = "compute" =>
            /\ \A th \in IntegratorThreads :
                  tpc[th] = "done" => idx[th] >= tasks_number_
            /\ main_pc \in {"accumulate", "returned"} =>
                  (AllThreadsDone /\ AllSlotsWritten /\ ~raced)
            /\ main_pc = "returned" =>
                  accumulated = SumOfResults(1..tasks_number_))
    /\ \A th \in IntegratorThreads :
          (function = "compute" /\ tpc[th] # "unborn") ~> (tpc[th] = "done")

\* compute has returned the sum of two tasks that two threads shared.
C23_Witness ==
    /\ function = "compute"
    /\ main_pc = "returned"
    /\ tasks_number_ = 2
    /\ writes[0] # writes[1]
    /\ accumulated = TaskResult(1) + TaskResult(2)

\* C24: parallelIntegral returns the sum of all numTasks partial results:
\* whenever std::accumulate runs every thread is done and every slot has
\* been stored into by its task, so that no slot is read unwritten or while
\* it is being written.
C24_SumOfAllPartialResults ==
    function = "parallelIntegral" =>
        /\ (main_pc = "accumulate" /\ next_slot < tasks_number_) =>
              (AllThreadsDone /\ AllSlotsWritten)
        /\ ~raced
        /\ main_pc = "returned" =>
              accumulated = SumOfResults(1..tasks_number_)

\* ------------------------------------------------------------------------
\* C25: the customers holding a mug (between mugs_.acquire() and
\* mugs_.release()) are never more than total_mugs_, whatever the number of
\* customers: the semaphore counts the mugs not held, and a customer who
\* arrives when all are held finds it at 0 and blocks.
MugHolders == {c \in Customers : cpc[c] \in {"decrement", "scan", "pour", "drink"}}

C25_MugHoldersWithinTotal ==
    /\ Cardinality(MugHolders) <= total_mugs_
    /\ mugs_ = total_mugs_ - Cardinality(MugHolders)
    /\ \A c \in Customers :
          (cpc[c] = "acquire" /\ Cardinality(MugHolders) = total_mugs_)
              => ~ENABLED TakeMug(c)

\* One mug, held by one customer; the other customer waits in acquire().
C25_Witness ==
    /\ total_mugs_ = 1
    /\ \E c, d \in Customers :
          /\ cpc[c] = "drink"
          /\ cpc[d] = "acquire"
          /\ ~ENABLED TakeMug(d)

\* C26: a tap is used by one customer at a time; a customer who holds a tap
\* holds a mug; within one drink the steps come in the order take the mug,
\* obtain a free tap, pour, release the tap, drink, return the mug.
TapHolders(j) == {c \in Customers : cpc[c] = "pour" /\ used_tap[c] = j}

DrinkOrder ==
    {<<"acquire", "decrement">>, <<"decrement", "scan">>, <<"scan", "pour">>,
     <<"pour", "drink">>, <<"drink", "increment">>,
     <<"increment", "acquire">>, <<"increment", "left">>}

C26_OneCustomerPerTap ==
    /\ [](\A j \in Taps :
             /\ Cardinality(TapHolders(j)) <= 1
             /\ TapHolders(j) \subseteq MugHolders
             /\ j < total_taps_ => taps_[j] = 1 - Cardinality(TapHolders(j))
             /\ TapHolders(j) # {} => j < total_taps_)
    /\ [][\A c \in Customers :
             (cpc[c] \notin {"unborn", cpc'[c]}) =>
                 /\ <<cpc[c], cpc'[c]>> \in DrinkOrder
                 /\ cpc'[c] = "pour" => taps_[used_tap'[c]] = 1
                 /\ cpc[c] = "drink" => mugs_' = mugs_ + 1]_vars

\* Both taps are in use, each by one customer, and each customer holds a mug.
C26_Witness ==
    /\ total_taps_ = 2
    /\ cpc[1] = "pour"
    /\ cpc[2] = "pour"
    /\ used_tap[1] # used_tap[2]
    /\ mugs_ = total_mugs_ - 2

\* C27: the counter that mugs_remaining() returns is within 0..total_mugs_
\* in every reachable state.
C27_CounterWithinRange ==
    /\ current_mugs_available_ >= 0
    /\ current_mugs_available_ <= total_mugs_

\* C28: with at least one mug and at least one tap every customer completes
\* all of its drinks and leaves the pub, and when all the customers have
\* left every tap is free.
C28_EveryCustomerLeaves ==
    /\ \A c \in Customers :
          (total_mugs_ >= 1 /\ total_taps_ >= 1 /\ c <= customers_number)
              ~> (cpc[c] = "left" /\ drink_i[c] = drinks_per_customer)
    /\ [](pub_sim \in {"verify", "done"} =>
             \A j \in Taps : j < total_taps_ => taps_[j] = 1)

\* Two customers have had two drinks each with one mug and one tap.
C28_Witness ==
    /\ pub_sim = "done"
    /\ customers_number = 2
    /\ drinks_per_customer = 2
    /\ total_mugs_ = 1
    /\ total_taps_ = 1
    /\ \A c \in Customers : cpc[c] = "left" /\ drink_i[c] = 2
    /\ taps_[0] = 1

\* ------------------------------------------------------------------------
\* C29: writer preference in Library.  A reader passes start_read only when
\* no writer is writing and none is waiting (writers_ = 0 and
\* waiting_writers_ = 0, and no writer thread is between the increment of
\* waiting_writers_ and the end of end_write); a reader that is already
\* reading is not held back by a waiting writer: it can go on to end_read as
\* soon as mutex_ is free.
WritersInside ==
    {w \in Writers : lpc[w] \in {"sw_wait", "sw_blocked", "sw_woken",
                                 "writing", "end_write"}}

C29_WriterPreference ==
    /\ [][\A r \in Readers :
             (lpc[r] # "reading" /\ lpc'[r] = "reading") =>
                 /\ writers_ = 0
                 /\ waiting_writers_ = 0
                 /\ WritersInside = {}]_vars
    /\ [](\A r \in Readers :
             (lpc[r] = "reading" /\ lib_mutex_ = NoThread)
                 => ENABLED EndReadLock(r))

\* One reader is reading, a writer waits for it, and the other reader has
\* found the writer waiting and is blocked in start_read.
C29_Witness ==
    /\ lpc[1] = "reading"
    /\ lpc[2] = "sr_blocked"
    /\ waiting_writers_ >= 1
    /\ writers_ = 0
    /\ \E w \in Writers : lpc[w] = "sw_blocked"

====
